---------------------------- MODULE Spec2Model ----------------------------
(***************************************************************************)
(* A model of the retrieval core of fisher: the chunker (chunk_text), the  *)
(* manifest file .vs/faiss_lookup.txt, the incremental indexer             *)
(* (setup_vector_store), the chunk resolver (get_chunk), the vector store  *)
(* wrapper (VectorStore) and the query function (query_vector_store).      *)
(*                                                                         *)
(* Strings.  A string is a sequence of symbols.  The symbols "H", "E" and  *)
(* "X" each stand for a fixed run of 500, 800 and 1001 non-blank           *)
(* characters that starts with a character no other symbol contains, so    *)
(* two strings are equal exactly when their symbol sequences are equal.    *)
(* Every other symbol is one character: "\n", " ", letters, digits and    *)
(* the named keys; EACUTE alone is a character of two bytes.               *)
(*                                                                         *)
(* The file system.  The directory is the sequence of its regular files    *)
(* in the order read_dir lists them; files are only added, between runs,   *)
(* and never change.  Every file is a text file (the PDF branch of        *)
(* process_file ends in the same chunk_text); a read by the indexer may    *)
(* fail (ReadFails).  create_dir_all and the writes of add_to_faiss_lookup *)
(* succeed; opening the manifest fails exactly when the file does not      *)
(* exist.  SpecInterrupt adds the kill of the process at any point of a    *)
(* run, SpecStore is the VectorStore alone under any calls, SpecUI the    *)
(* two handle_input functions under any keys, SpecApp run_app up to its    *)
(* return (the chat loop after return Ok(()) is never reached).            *)
(*                                                                         *)
(* A panic ends the run: pc names the call that panicked.  The variables   *)
(* log, embedCalls, startManifest, prevStore, runFresh, prevDone, newFrom, *)
(* seenCount, prevEnd, prevIdx, res and qres, and in SpecStore spassed,    *)
(* sbefore, sbatch and sadds, record what happened; the program does not   *)
(* read them.                                                              *)
(***************************************************************************)
EXTENDS Integers, Sequences, FiniteSets

\* ------------------------------------------------------------------ bounds

\* The directory holds at most MaxFiles regular files.
MaxFiles == 2

\* At most MaxRuns indexing runs are started.
MaxRuns == 2

\* Texts handed to chunk_text in SpecChunk have at most MaxTextLen symbols.
MaxTextLen == 5

\* get_chunk is called with vector_index in 0..MaxIndex.
MaxIndex == 4

\* SpecStore: the calls of VectorStore::add and the vectors of one call.
MaxAdds == 2
MaxBatch == 2

\* SpecUI, SpecApp: the characters an edited string may reach, and the
\* messages a ChatInterface may hold.
MaxInput == 3
MaxMessages == 1

\* ------------------------------------------------------- program constants

\* files.rs:105  let max_length = 1000;
max_length == 1000

\* files.rs:37 and files.rs:174  let embedding_dim = 3072;
embedding_dim == 3072

\* files.rs:183  let k = 5;
k == 5

\* ----------------------------------------------------------------- strings

NL == "\n"
SP == " "

Blocks == {"H", "E", "X"}

Digits == <<"0", "1", "2", "3", "4", "5", "6", "7", "8", "9">>

\* The number of bytes a symbol stands for (str::len counts bytes).
Weight(c) ==
    CASE c = "H" -> 500
      [] c = "E" -> 800
      [] c = "X" -> 1001
      [] OTHER -> 1

RECURSIVE StrLen(_)
\* String::len / str::len
StrLen(s) == IF s = <<>> THEN 0 ELSE Weight(Head(s)) + StrLen(Tail(s))

RECURSIVE SplitOn(_, _, _)
\* The pieces of s between occurrences of sep; cur is the piece being read.
SplitOn(s, sep, cur) ==
    IF s = <<>> THEN <<cur>>
    ELSE IF Head(s) = sep THEN <<cur>> \o SplitOn(Tail(s), sep, <<>>)
    ELSE SplitOn(Tail(s), sep, Append(cur, Head(s)))

\* str::lines and BufRead::lines: the pieces between "\n", without a final
\* empty piece (a text that ends in "\n", or the empty text, has none).
Lines(text) ==
    LET pieces == SplitOn(text, NL, <<>>)
        n == Len(pieces)
    IN  IF pieces[n] = <<>> THEN SubSeq(pieces, 1, n - 1) ELSE pieces

\* str::split_whitespace: the non-empty pieces between blanks.
SplitWhitespace(line) ==
    LET pieces == SplitOn(line, SP, <<>>)
    IN  SelectSeq(pieces, LAMBDA p : p # <<>>)

RECURSIVE UsizeToString(_)
\* usize::to_string: the decimal digits of n.
UsizeToString(n) ==
    IF n < 10 THEN <<Digits[n + 1]>>
    ELSE Append(UsizeToString(n \div 10), Digits[(n % 10) + 1])

IsDigit(c) == \E d \in 1..10 : Digits[d] = c

DigitValue(c) == (CHOOSE d \in 1..10 : Digits[d] = c) - 1

RECURSIVE DigitsValue(_)
DigitsValue(s) ==
    IF s = <<>> THEN 0
    ELSE 10 * DigitsValue(SubSeq(s, 1, Len(s) - 1)) + DigitValue(s[Len(s)])

\* str::parse::<usize>: Ok for a non-empty string of digits, Err otherwise.
ParseOk(s) == s # <<>> /\ \A i \in 1..Len(s) : IsDigit(s[i])

ParseUsize(s) == DigitsValue(s)

\* ----------------------------------------------------------------- chunker

\* ChunkStep with the flush decided on the buffer alone, the line not
\* counted.
ChunkStepLateFlush(st, line) ==
    LET flush == st.current_length > max_length
        chunks0 == IF flush THEN Append(st.chunks, st.current_chunk) ELSE st.chunks
        chunk0 == IF flush THEN <<>> ELSE st.current_chunk
        len0 == IF flush THEN 0 ELSE st.current_length
    IN  [chunks |-> chunks0,
         current_chunk |-> chunk0 \o line,
         current_length |-> len0 + StrLen(line)]

\* ChunkStep with the flush already when the buffer and the line reach
\* max_length (>= for >).
ChunkStepFlushAtLimit(st, line) ==
    LET flush == st.current_length + StrLen(line) >= max_length
        chunks0 == IF flush THEN Append(st.chunks, st.current_chunk) ELSE st.chunks
        chunk0 == IF flush THEN <<>> ELSE st.current_chunk
        len0 == IF flush THEN 0 ELSE st.current_length
    IN  [chunks |-> chunks0,
         current_chunk |-> chunk0 \o line,
         current_length |-> len0 + StrLen(line)]

\* ChunkStep with the line that causes a flush left out of the new chunk.
ChunkStepDropLine(st, line) ==
    LET flush == st.current_length + StrLen(line) > max_length
    IN  IF flush
        THEN [chunks |-> Append(st.chunks, st.current_chunk),
              current_chunk |-> <<>>,
              current_length |-> 0]
        ELSE [chunks |-> st.chunks,
              current_chunk |-> st.current_chunk \o line,
              current_length |-> st.current_length + StrLen(line)]

\* One iteration of the loop of chunk_text over a line; st is the triple
\* (chunks, current_chunk, current_length).
ChunkStep(st, line) ==
    LET flush == st.current_length + StrLen(line) > max_length
        chunks0 == IF flush THEN Append(st.chunks, st.current_chunk) ELSE st.chunks
        chunk0 == IF flush THEN <<>> ELSE st.current_chunk
        len0 == IF flush THEN 0 ELSE st.current_length
    IN  [chunks |-> chunks0,
         current_chunk |-> chunk0 \o line,
         current_length |-> len0 + StrLen(line)]

RECURSIVE ChunkLoop(_, _)
ChunkLoop(st, lines) ==
    IF lines = <<>> THEN st
    ELSE ChunkLoop(ChunkStep(st, Head(lines)), Tail(lines))

\* files.rs chunk_text
chunk_text(text) ==
    LET st == ChunkLoop([chunks |-> <<>>, current_chunk |-> <<>>, current_length |-> 0],
                        Lines(text))
    IN  IF st.current_chunk # <<>> THEN Append(st.chunks, st.current_chunk)
        ELSE st.chunks

\* ------------------------------------------------------------- the inputs

\* The paths a file of the directory may have: a plain one, one that ends
\* in a blank and one with a blank inside.
Paths == { <<"b">>, <<"b", SP>>, <<"c", SP, "d">> }

\* The contents a file may have: no text, two lines of 800 characters, one
\* line of 500 characters.
FileTexts == { <<>>, <<"E", NL, "E", NL>>, <<"H">> }

\* The query strings.
QueryTexts == { <<"H">> }

\* ------------------------------------------------------------------ state

VARIABLES
    files,            \* the regular files of the directory, in listing order
    vsDir,            \* whether <directory>/.vs exists
    manifestExists,   \* whether .vs/faiss_lookup.txt exists
    manifest,         \* the bytes of .vs/faiss_lookup.txt
    pc,               \* where setup_vector_store stands
    runs,             \* the number of indexing runs started
    existing_files,   \* setup_vector_store: existing_files
    is_empty,         \* setup_vector_store: is_empty
    idx,              \* the position in `files` of the loop of setup_vector_store
    chunks,           \* setup_vector_store: chunks of the file being processed
    embeddings,       \* setup_vector_store: embeddings of the file being processed
    store,            \* the VectorStore of the running or the last indexing run
    log,              \* the embedding requests and appends of the run, in order
    embedCalls,       \* the embedding requests of the run
    startManifest,    \* the manifest bytes when the run began
    prevStore,        \* the VectorStore of the run before this one, at its end
    runFresh,         \* the run began with no .vs directory and no manifest file
    prevDone,         \* the run before this one completed
    newFrom,          \* the number of files when the run before this one began
    seenCount,        \* the number of files when this run began
    res,              \* the last call of get_chunk and what it returned
    qres,             \* the last call of query_vector_store and how it ended
    apiKey,           \* whether GEMINI_API_KEY is set in the environment
    prevEnd,          \* how the run before this one ended (its last pc)
    prevIdx,          \* the index of the file the run before this one ended at
    ctext,            \* SpecChunk: the text given to chunk_text
    cchunks,          \* SpecChunk: what chunk_text returned
    cpc,              \* SpecChunk: whether chunk_text has been applied
    sstore,           \* SpecStore: the VectorStore under test
    spassed,          \* SpecStore: every vector passed to add so far, in order
    sbefore,          \* SpecStore: the VectorStore before the last call of add
    sbatch,           \* SpecStore: the vectors given to the last call of add
    sadds,            \* SpecStore: the number of calls of add
    sres,             \* SpecStore: what the last call of query returned
    spc,              \* SpecStore: "ok", or "panicked" once an assert failed
    home_screen,      \* the HomeScreen: directory, cursor position, editing
    chat,             \* SpecUI: the ChatInterface: messages, input, cursor position
    ucall,            \* the last call of handle_input: key, result, state before
    upc,              \* "ok", or "panicked" once a String call has panicked
    apc,              \* SpecApp: where run_app is
    term,             \* SpecApp: the terminal: raw mode, alternate screen, mouse
    current_directory,\* SpecApp: run_app's current_directory
    exit_path,        \* SpecApp: the way run_app took out of the home loop
    future            \* SpecApp: the future setup_vector_store(..) returned

indexVars == <<files, vsDir, manifestExists, manifest, pc, runs, existing_files,
               is_empty, idx, chunks, embeddings, store, log, embedCalls,
               startManifest, prevStore, runFresh, prevDone, newFrom, seenCount, res, qres,
               apiKey, prevEnd, prevIdx>>

chunkVars == <<ctext, cchunks, cpc>>

storeVars == <<sstore, spassed, sbefore, sbatch, sadds, sres, spc>>

uiVars == <<home_screen, chat, ucall, upc>>

appVars == <<apc, term, current_directory, exit_path, future>>

vars == <<indexVars, chunkVars, storeVars, uiVars, appVars>>

NoCall == [kind |-> "nocall"]

\* No HomeScreen, no ChatInterface and no run_app: the values of their
\* variables in the specifications that have none.
NoApp ==
    /\ home_screen = NoCall
    /\ chat = NoCall
    /\ ucall = NoCall
    /\ upc = "unused"
    /\ apc = "unused"
    /\ term = NoCall
    /\ current_directory = <<>>
    /\ exit_path = "none"
    /\ future = "none"

\* ------------------------------------------------------------ the manifest

\* The record add_to_faiss_lookup writes: name, " ", count, "\n".
ManifestRecord(file_name, num_chunks) ==
    file_name \o <<SP>> \o UsizeToString(num_chunks) \o <<NL>>

\* setup_vector_store's loader: the first part of every line of two parts.
LoadExisting(bytes) ==
    LET lines == Lines(bytes)
        parts == [i \in 1..Len(lines) |-> SplitWhitespace(lines[i])]
        two == SelectSeq(parts, LAMBDA p : Len(p) = 2)
    IN  [i \in 1..Len(two) |-> two[i][1]]

\* get_chunk's loader: (filename, chunk_count) of every line of two parts
\* whose second part parses as a usize.
LoadFileChunks(bytes) ==
    LET lines == Lines(bytes)
        parts == [i \in 1..Len(lines) |-> SplitWhitespace(lines[i])]
        good == SelectSeq(parts, LAMBDA p : Len(p) = 2 /\ ParseOk(p[2]))
    IN  [i \in 1..Len(good) |->
            [filename |-> good[i][1], chunk_count |-> ParseUsize(good[i][2])]]

RECURSIVE SumCounts(_)
SumCounts(entries) ==
    IF entries = <<>> THEN 0
    ELSE Head(entries).chunk_count + SumCounts(Tail(entries))

\* The total chunk count of the manifest, as get_chunk reads it.
TotalChunks == IF manifestExists THEN SumCounts(LoadFileChunks(manifest)) ELSE 0

\* ------------------------------------------------------- document source

\* get_files: the regular files of the directory, in enumeration order.
get_files == [i \in 1..Len(files) |-> files[i].path]

FileExists(path) == \E i \in 1..Len(files) : files[i].path = path

FileText(path) == files[CHOOSE i \in 1..Len(files) : files[i].path = path].text

\* process_file of a readable text file (read_to_string, then chunk_text).
process_file(path) == chunk_text(FileText(path))

\* ---------------------------------------------------------- vector store

\* A vector: its number of components and the text it embeds.
Vector(dim, text) == [dim |-> dim, of |-> text]

\* VectorStore::new: an empty flat L2 index.
VectorStoreNew == <<>>

\* GoodPrefix with every dimension checked before the first vector is
\* appended: nothing when any vector is of another dimension.
GoodPrefixAllOrNothing(vectors) ==
    IF \E i \in 1..Len(vectors) : vectors[i].dim # embedding_dim THEN <<>>
    ELSE vectors

RECURSIVE GoodPrefix(_)
\* The vectors VectorStore::add appends before its assert_eq! on the
\* dimension fails: the longest prefix of vectors of the store's dimension.
GoodPrefix(vectors) ==
    IF vectors = <<>> \/ Head(vectors).dim # embedding_dim THEN <<>>
    ELSE <<Head(vectors)>> \o GoodPrefix(Tail(vectors))

\* VectorStore::add with the vectors put in front of the stored ones.
VectorStoreAddFront(st, vectors) ==
    [store |-> GoodPrefix(vectors) \o st,
     ok |-> Len(GoodPrefix(vectors)) = Len(vectors)]

\* VectorStore::add: the store afterwards, and whether the call returned.
VectorStoreAdd(st, vectors) ==
    [store |-> st \o GoodPrefix(vectors),
     ok |-> Len(GoodPrefix(vectors)) = Len(vectors)]

\* VectorStore::len
VectorStoreLen(st) == Len(st)

\* The embedding collaborator maps a text to a point; the model keeps one
\* coordinate of it.
EmbedValue(text) == StrLen(text) \div 100

\* Squared Euclidean distance (MetricType::L2).
Distance(qv, v) ==
    (EmbedValue(qv.of) - EmbedValue(v.of)) * (EmbedValue(qv.of) - EmbedValue(v.of))

\* What the index reports for a missing result: label -1.
MissingLabel == 0 - 1

MissingDistance == 1000 * 1000

RECURSIVE Nearest(_, _, _, _)
\* The labels (0-based positions) of the n vectors of st nearest to qv that
\* are not in taken, nearest first, ties by position.
Nearest(st, qv, n, taken) ==
    LET left == (1..Len(st)) \ taken
    IN  IF n = 0 \/ left = {} THEN <<>>
        ELSE LET best == CHOOSE i \in left : \A j \in left :
                            \/ Distance(qv, st[i]) < Distance(qv, st[j])
                            \/ Distance(qv, st[i]) = Distance(qv, st[j]) /\ i <= j
             IN  <<best - 1>> \o Nearest(st, qv, n - 1, taken \cup {best})

\* VectorStore::query: index.search(query, k) gives k labels and distances,
\* the found ones nearest first, then -1 for each missing one.
VectorStoreQuery(st, qv, kk) ==
    LET found == Nearest(st, qv, kk, {})
    IN  [ok |-> qv.dim = embedding_dim,
         labels |-> [i \in 1..kk |-> IF i <= Len(found) THEN found[i] ELSE MissingLabel],
         distances |-> [i \in 1..kk |-> IF i <= Len(found)
                                        THEN Distance(qv, st[found[i] + 1])
                                        ELSE MissingDistance]]

\* ------------------------------------------------- embedding collaborator

\* What generate_embedding_document may return for texts: Err (no API key,
\* a failed request, a body that is no JSON), or the vectors it collects
\* from the response: one per text, or fewer when an element of the
\* response has no "values" array, or one with fewer components when a
\* value is no number.
EmbeddingResponses(texts) ==
    LET n == Len(texts)
        full == [i \in 1..n |-> Vector(embedding_dim, texts[i])]
    IN  { [ok |-> FALSE, vectors |-> <<>>],
          [ok |-> TRUE, vectors |-> full],
          [ok |-> TRUE, vectors |-> SubSeq(full, 1, n - 1)],
          [ok |-> TRUE,
           vectors |-> [i \in 1..n |-> IF i = n
                                       THEN Vector(embedding_dim - 1, texts[i])
                                       ELSE full[i]]] }

\* generate_embedding_document(texts): Err at once when GEMINI_API_KEY is
\* not set (the first statement after Client::new()), else what the
\* request and the parsing of its response give.
generate_embedding_document(texts) ==
    IF ~apiKey THEN { [ok |-> FALSE, vectors |-> <<>>] }
    ELSE EmbeddingResponses(texts)

\* What generate_embedding_query may return for a query: Err or one vector.
QueryEmbeddingResponses(text) ==
    { [ok |-> FALSE, vector |-> Vector(0, text)],
      [ok |-> TRUE, vector |-> Vector(embedding_dim, text)] }

\* ------------------------------------------------------------- the indexer

Running == pc \in {"loop", "embedding", "adding", "recording"}

\* Whether the loop of setup_vector_store processes the file at idx: every
\* file when is_empty, else the files that are not in existing_files.
NeedsIndexing(path) ==
    IF is_empty THEN TRUE
    ELSE ~(\E i \in 1..Len(existing_files) : existing_files[i] = path)

Logged(op) == Append(log, [op |-> op, file |-> idx])

\* setup_vector_store up to its loop: create .vs, list the files, read the
\* names of the manifest, make a new VectorStore.
Begin ==
    /\ ~Running
    /\ runs < MaxRuns
    /\ runs' = runs + 1
    /\ vsDir' = TRUE
    /\ existing_files' = IF manifestExists THEN LoadExisting(manifest) ELSE <<>>
    /\ is_empty' = (existing_files' = <<>>)
    /\ store' = VectorStoreNew
    /\ prevStore' = store
    /\ idx' = 1
    /\ chunks' = <<>>
    /\ embeddings' = <<>>
    /\ log' = <<>>
    /\ embedCalls' = 0
    /\ startManifest' = manifest
    /\ runFresh' = (~vsDir /\ ~manifestExists)
    /\ prevDone' = (pc = "done")
    /\ newFrom' = seenCount
    /\ seenCount' = Len(files)
    /\ res' = NoCall
    /\ qres' = NoCall
    /\ prevEnd' = pc
    /\ prevIdx' = idx
    /\ pc' = "loop"
    /\ UNCHANGED <<files, manifestExists, manifest, apiKey, chunkVars, storeVars, uiVars, appVars>>

\* The loop is over: setup_vector_store returns.
Finish ==
    /\ pc = "loop"
    /\ idx > Len(get_files)
    /\ pc' = "done"
    /\ UNCHANGED <<files, vsDir, manifestExists, manifest, runs, existing_files,
                   is_empty, idx, chunks, embeddings, store, log, embedCalls,
                   startManifest, prevStore, runFresh, prevDone, newFrom, seenCount, res,
                   qres, apiKey, prevEnd, prevIdx,
                   chunkVars, storeVars, uiVars, appVars>>

\* A file whose name is in existing_files is passed over.
SkipFile ==
    /\ pc = "loop"
    /\ idx <= Len(get_files)
    /\ ~NeedsIndexing(get_files[idx])
    /\ idx' = idx + 1
    /\ UNCHANGED <<files, vsDir, manifestExists, manifest, pc, runs,
                   existing_files, is_empty, chunks, embeddings, store, log,
                   embedCalls, startManifest, prevStore, runFresh, prevDone,
                   newFrom, seenCount, res, qres, apiKey, prevEnd, prevIdx,
                   chunkVars, storeVars, uiVars, appVars>>

\* process_file cannot read the file: read_to_string returns Err and
\* .expect("Failed to read file") panics.
ReadFails ==
    /\ pc = "loop"
    /\ idx <= Len(get_files)
    /\ NeedsIndexing(get_files[idx])
    /\ pc' = "panic_read"
    /\ UNCHANGED <<files, vsDir, manifestExists, manifest, runs, existing_files,
                   is_empty, idx, chunks, embeddings, store, log, embedCalls,
                   startManifest, prevStore, runFresh, prevDone, newFrom,
                   seenCount, res, qres, apiKey, prevEnd, prevIdx,
                   chunkVars, storeVars, uiVars, appVars>>

\* A file with no chunk: nothing is embedded, added or recorded.
EmptyFile ==
    /\ pc = "loop"
    /\ idx <= Len(get_files)
    /\ NeedsIndexing(get_files[idx])
    /\ process_file(get_files[idx]) = <<>>
    /\ idx' = idx + 1
    /\ chunks' = <<>>
    /\ UNCHANGED <<files, vsDir, manifestExists, manifest, pc, runs,
                   existing_files, is_empty, embeddings, store, log,
                   embedCalls, startManifest, prevStore, runFresh, prevDone,
                   newFrom, seenCount, res, qres, apiKey, prevEnd, prevIdx,
                   chunkVars, storeVars, uiVars, appVars>>

\* RequestEmbedding without the test of chunks.is_empty(): a file with no
\* chunk is embedded too.
RequestEmbeddingAnyFile ==
    /\ pc = "loop"
    /\ idx <= Len(get_files)
    /\ NeedsIndexing(get_files[idx])
    /\ chunks' = process_file(get_files[idx])
    /\ embedCalls' = embedCalls + 1
    /\ log' = Logged("embed")
    /\ pc' = "embedding"
    /\ UNCHANGED <<files, vsDir, manifestExists, manifest, runs, existing_files,
                   is_empty, idx, embeddings, store, startManifest, prevStore,
                   runFresh, prevDone, newFrom, seenCount, res, qres, apiKey, prevEnd, prevIdx,
                   chunkVars, storeVars, uiVars, appVars>>

\* A file with chunks: generate_embedding_document is called and awaited.
RequestEmbedding ==
    /\ pc = "loop"
    /\ idx <= Len(get_files)
    /\ NeedsIndexing(get_files[idx])
    /\ process_file(get_files[idx]) # <<>>
    /\ chunks' = process_file(get_files[idx])
    /\ embedCalls' = embedCalls + 1
    /\ log' = Logged("embed")
    /\ pc' = "embedding"
    /\ UNCHANGED <<files, vsDir, manifestExists, manifest, runs, existing_files,
                   is_empty, idx, embeddings, store, startManifest, prevStore,
                   runFresh, prevDone, newFrom, seenCount, res, qres, apiKey, prevEnd, prevIdx,
                   chunkVars, storeVars, uiVars, appVars>>

\* The embedding call ends: .expect("Failed to embed") panics on Err.
EmbedResponse ==
    /\ pc = "embedding"
    /\ \E r \in generate_embedding_document(chunks) :
          /\ embeddings' = r.vectors
          /\ pc' = IF r.ok THEN "adding" ELSE "panic_embed"
    /\ UNCHANGED <<files, vsDir, manifestExists, manifest, runs, existing_files,
                   is_empty, idx, chunks, store, log, embedCalls, startManifest,
                   prevStore, runFresh, prevDone, newFrom, seenCount, res, qres, apiKey, prevEnd, prevIdx,
                   chunkVars, storeVars, uiVars, appVars>>

\* AddVectors with the loop going on to the next file at once, the
\* manifest record left out.
AddVectorsUnrecorded ==
    /\ pc = "adding"
    /\ store' = VectorStoreAdd(store, embeddings).store
    /\ log' = Logged("add")
    /\ idx' = idx + 1
    /\ pc' = "loop"
    /\ UNCHANGED <<files, vsDir, manifestExists, manifest, runs, existing_files,
                   is_empty, chunks, embeddings, embedCalls, startManifest,
                   prevStore, runFresh, prevDone, newFrom, seenCount, res, qres,
                   apiKey, prevEnd, prevIdx,
                   chunkVars, storeVars, uiVars, appVars>>

\* vector_store.add(&embeddings): the assert on the dimension panics.
AddVectors ==
    /\ pc = "adding"
    /\ store' = VectorStoreAdd(store, embeddings).store
    /\ log' = Logged("add")
    /\ pc' = IF VectorStoreAdd(store, embeddings).ok THEN "recording" ELSE "panic_add"
    /\ UNCHANGED <<files, vsDir, manifestExists, manifest, runs, existing_files,
                   is_empty, idx, chunks, embeddings, embedCalls, startManifest,
                   prevStore, runFresh, prevDone, newFrom, seenCount, res, qres, apiKey, prevEnd, prevIdx,
                   chunkVars, storeVars, uiVars, appVars>>

\* add_to_faiss_lookup: open the manifest for append (no create: the
\* unwrap panics when the file does not exist) and write the record.
add_to_faiss_lookup ==
    /\ pc = "recording"
    /\ IF manifestExists
       THEN /\ manifest' = manifest \o ManifestRecord(get_files[idx], Len(chunks))
            /\ log' = Logged("record")
            /\ idx' = idx + 1
            /\ pc' = "loop"
       ELSE /\ pc' = "panic_record"
            /\ UNCHANGED <<manifest, log, idx>>
    /\ UNCHANGED <<files, vsDir, manifestExists, runs, existing_files, is_empty,
                   chunks, embeddings, store, embedCalls, startManifest,
                   prevStore, runFresh, prevDone, newFrom, seenCount, res, qres, apiKey, prevEnd, prevIdx,
                   chunkVars, storeVars, uiVars, appVars>>

\* The bytes of the manifest after the first n of the four write_all calls
\* of add_to_faiss_lookup: the name, " ", the count, "\n".
WrittenAfter(n, file_name, num_chunks) ==
    LET writes == <<file_name, <<SP>>, UsizeToString(num_chunks), <<NL>>>>
    IN  IF n = 0 THEN <<>>
        ELSE IF n = 1 THEN writes[1]
        ELSE IF n = 2 THEN writes[1] \o writes[2]
        ELSE IF n = 3 THEN writes[1] \o writes[2] \o writes[3]
        ELSE writes[1] \o writes[2] \o writes[3] \o writes[4]

\* The process is killed during a run: between two steps of the loop or,
\* in add_to_faiss_lookup, after the first n of its four write_all calls.
Interrupt ==
    /\ Running
    /\ pc' = "killed"
    /\ IF pc = "recording" /\ manifestExists
       THEN \E n \in 0..3 :
               manifest' = manifest \o WrittenAfter(n, get_files[idx], Len(chunks))
       ELSE UNCHANGED manifest
    /\ UNCHANGED <<files, vsDir, manifestExists, runs, existing_files, is_empty,
                   idx, chunks, embeddings, store, log, embedCalls, startManifest,
                   prevStore, runFresh, prevDone, newFrom, seenCount, res, qres,
                   apiKey, prevEnd, prevIdx, chunkVars, storeVars, uiVars, appVars>>

\* Between runs a file is added to the directory.
AddFile ==
    /\ ~Running
    /\ Len(files) < MaxFiles
    /\ \E p \in Paths, t \in FileTexts :
          /\ ~FileExists(p)
          /\ files' = Append(files, [path |-> p, text |-> t])
    /\ res' = NoCall
    /\ qres' = NoCall
    /\ UNCHANGED <<vsDir, manifestExists, manifest, pc, runs, existing_files,
                   is_empty, idx, chunks, embeddings, store, log, embedCalls,
                   startManifest, prevStore, runFresh, prevDone, newFrom,
                   seenCount, apiKey, prevEnd, prevIdx,
                   chunkVars, storeVars, uiVars, appVars>>

\* ------------------------------------------------------------ the resolver

RECURSIVE WalkEntries(_, _)
\* The loop of get_chunk over file_chunks with the remaining index i.
\* process_file panics ("Failed to read file") when the named file is gone.
WalkEntries(file_chunks, i) ==
    IF file_chunks = <<>> THEN [kind |-> "none", text |-> <<>>]
    ELSE IF i < Head(file_chunks).chunk_count
    THEN IF ~FileExists(Head(file_chunks).filename)
         THEN [kind |-> "panic", text |-> <<>>]
         ELSE IF i < Len(process_file(Head(file_chunks).filename))
         THEN [kind |-> "some", text |-> process_file(Head(file_chunks).filename)[i + 1]]
         ELSE [kind |-> "none", text |-> <<>>]
    ELSE WalkEntries(Tail(file_chunks), i - Head(file_chunks).chunk_count)

\* get_chunk(directory, vector_index)
get_chunk(vector_index) ==
    IF ~manifestExists THEN [kind |-> "none", text |-> <<>>]
    ELSE WalkEntries(LoadFileChunks(manifest), vector_index)

\* A call of get_chunk between indexing runs; res keeps the index, what
\* came back and the manifest's total chunk count at the call.
Resolve ==
    /\ ~Running
    /\ res = NoCall
    /\ qres = NoCall
    /\ \E i \in 0..MaxIndex :
          LET out == get_chunk(i)
          IN  res' = [kind |-> out.kind, text |-> out.text,
                      index |-> i, total |-> TotalChunks]
    /\ qres' = NoCall
    /\ UNCHANGED <<files, vsDir, manifestExists, manifest, pc, runs,
                   existing_files, is_empty, idx, chunks, embeddings, store, log,
                   embedCalls, startManifest, prevStore, runFresh, prevDone,
                   newFrom, seenCount, apiKey, prevEnd, prevIdx,
                   chunkVars, storeVars, uiVars, appVars>>

\* --------------------------------------------------------------- the query

\* query_vector_store(query, directory) given what generate_embedding_query
\* returned: a new VectorStore is searched; a label that is no position
\* (get() is None) makes the unwrap panic.
query_vector_store(query, r) ==
    LET vector_store == VectorStoreNew
        found == VectorStoreQuery(vector_store, r.vector, k)
        base == [kind |-> "", total |-> 0, query |-> query, searched |-> FALSE, size |-> VectorStoreLen(vector_store),
                 labels |-> <<>>, distances |-> <<>>, indices |-> <<>>]
    IN  IF ~r.ok THEN [base EXCEPT !.kind = "err"]
        ELSE IF ~found.ok THEN [base EXCEPT !.kind = "panic"]
        ELSE IF \E i \in 1..k : found.labels[i] = MissingLabel
        THEN [base EXCEPT !.kind = "panic", !.searched = TRUE,
                          !.labels = found.labels, !.distances = found.distances]
        ELSE [base EXCEPT !.kind = "ok", !.searched = TRUE,
                          !.labels = found.labels, !.distances = found.distances,
                          !.indices = found.labels]

\* A call of query_vector_store between indexing runs; qres keeps how it
\* ended and the manifest's total chunk count at the call.
Query ==
    /\ ~Running
    /\ res = NoCall
    /\ qres = NoCall
    /\ \E q \in QueryTexts : \E r \in QueryEmbeddingResponses(q) :
          /\ r.ok => apiKey
          /\ qres' = [query_vector_store(q, r) EXCEPT !.total = TotalChunks]
    /\ res' = NoCall
    /\ UNCHANGED <<files, vsDir, manifestExists, manifest, pc, runs,
                   existing_files, is_empty, idx, chunks, embeddings, store, log,
                   embedCalls, startManifest, prevStore, runFresh, prevDone,
                   newFrom, seenCount, apiKey, prevEnd, prevIdx,
                   chunkVars, storeVars, uiVars, appVars>>

\* ------------------------------------------------------- the specification

\* The directory is empty; it has no .vs directory, or an empty one, or one
\* with an empty manifest file.
Init ==
    /\ files = <<>>
    /\ vsDir \in BOOLEAN
    /\ manifestExists \in BOOLEAN
    /\ manifestExists => vsDir
    /\ manifest = <<>>
    /\ pc = "idle"
    /\ runs = 0
    /\ existing_files = <<>>
    /\ is_empty = TRUE
    /\ idx = 1
    /\ chunks = <<>>
    /\ embeddings = <<>>
    /\ store = <<>>
    /\ log = <<>>
    /\ embedCalls = 0
    /\ startManifest = <<>>
    /\ prevStore = <<>>
    /\ runFresh = FALSE
    /\ prevDone = FALSE
    /\ newFrom = 0
    /\ seenCount = 0
    /\ res = NoCall
    /\ qres = NoCall
    /\ apiKey \in BOOLEAN
    /\ prevEnd = "idle"
    /\ prevIdx = 1
    /\ ctext = <<>>
    /\ cchunks = <<>>
    /\ cpc = "unused"
    /\ sstore = <<>>
    /\ spassed = <<>>
    /\ sbefore = <<>>
    /\ sbatch = <<>>
    /\ sadds = 0
    /\ sres = NoCall
    /\ spc = "unused"
    /\ NoApp

Next ==
    \/ Begin
    \/ Finish
    \/ SkipFile
    \/ ReadFails
    \/ EmptyFile
    \/ RequestEmbedding
    \/ EmbedResponse
    \/ AddVectors
    \/ add_to_faiss_lookup
    \/ AddFile
    \/ Resolve
    \/ Query

Spec == Init /\ [][Next]_vars

\* The indexing runs alone, with no call of get_chunk or query_vector_store
\* between them (neither changes what a run reads or writes).
NextIndexing ==
    \/ Begin
    \/ Finish
    \/ SkipFile
    \/ ReadFails
    \/ EmptyFile
    \/ RequestEmbedding
    \/ EmbedResponse
    \/ AddVectors
    \/ add_to_faiss_lookup
    \/ AddFile

SpecIndexing == Init /\ [][NextIndexing]_vars

\* The indexing runs with the process killed at any point of a run.
NextInterrupt ==
    \/ NextIndexing
    \/ Interrupt

SpecInterrupt == Init /\ [][NextInterrupt]_vars

\* ------------------------------------------------- chunk_text on its own

RECURSIVE TextsOfLen(_)
TextsOfLen(n) ==
    IF n = 0 THEN { <<>> }
    ELSE { Append(t, c) : t \in TextsOfLen(n - 1), c \in Blocks \cup {NL} }

\* Every text of at most MaxTextLen symbols, each a line feed or a block.
Texts == UNION { TextsOfLen(n) : n \in 0..MaxTextLen }

InitChunk ==
    /\ ctext \in Texts
    /\ cchunks = <<>>
    /\ cpc = "ready"
    /\ files = <<>>
    /\ vsDir = FALSE
    /\ manifestExists = FALSE
    /\ manifest = <<>>
    /\ pc = "idle"
    /\ runs = 0
    /\ existing_files = <<>>
    /\ is_empty = TRUE
    /\ idx = 1
    /\ chunks = <<>>
    /\ embeddings = <<>>
    /\ store = <<>>
    /\ log = <<>>
    /\ embedCalls = 0
    /\ startManifest = <<>>
    /\ prevStore = <<>>
    /\ runFresh = FALSE
    /\ prevDone = FALSE
    /\ newFrom = 0
    /\ seenCount = 0
    /\ res = NoCall
    /\ qres = NoCall
    /\ apiKey = TRUE
    /\ prevEnd = "idle"
    /\ prevIdx = 1
    /\ sstore = <<>>
    /\ spassed = <<>>
    /\ sbefore = <<>>
    /\ sbatch = <<>>
    /\ sadds = 0
    /\ sres = NoCall
    /\ spc = "unused"
    /\ NoApp

\* chunk_text is applied to the text.
ChunkText ==
    /\ cpc = "ready"
    /\ cchunks' = chunk_text(ctext)
    /\ cpc' = "done"
    /\ UNCHANGED <<ctext, indexVars, storeVars, uiVars, appVars>>

NextChunk == ChunkText

SpecChunk == InitChunk /\ [][NextChunk]_vars

\* ---------------------------------------------- the VectorStore on its own

\* The vectors a caller may pass: two of the store's dimension, one not.
StoreVectors ==
    { Vector(embedding_dim, <<"H">>), Vector(embedding_dim, <<"E">>),
      Vector(embedding_dim - 1, <<"H">>) }

RECURSIVE BatchesOfLen(_)
BatchesOfLen(n) ==
    IF n = 0 THEN { <<>> }
    ELSE { Append(b, v) : b \in BatchesOfLen(n - 1), v \in StoreVectors }

\* Every slice of at most MaxBatch vectors.
Batches == UNION { BatchesOfLen(n) : n \in 0..MaxBatch }

\* VectorStore::new(embedding_dim), nothing else running.
InitStore ==
    /\ sstore = VectorStoreNew
    /\ spassed = <<>>
    /\ sbefore = <<>>
    /\ sbatch = <<>>
    /\ sadds = 0
    /\ sres = NoCall
    /\ spc = "ok"
    /\ NoApp
    /\ files = <<>>
    /\ vsDir = FALSE
    /\ manifestExists = FALSE
    /\ manifest = <<>>
    /\ pc = "idle"
    /\ runs = 0
    /\ existing_files = <<>>
    /\ is_empty = TRUE
    /\ idx = 1
    /\ chunks = <<>>
    /\ embeddings = <<>>
    /\ store = <<>>
    /\ log = <<>>
    /\ embedCalls = 0
    /\ startManifest = <<>>
    /\ prevStore = <<>>
    /\ runFresh = FALSE
    /\ prevDone = FALSE
    /\ newFrom = 0
    /\ seenCount = 0
    /\ res = NoCall
    /\ qres = NoCall
    /\ apiKey = TRUE
    /\ prevEnd = "idle"
    /\ prevIdx = 1
    /\ ctext = <<>>
    /\ cchunks = <<>>
    /\ cpc = "unused"

\* A call of add: the assert on the dimension ends the process.
StoreAdd ==
    /\ spc = "ok"
    /\ sadds < MaxAdds
    /\ \E b \in Batches :
          /\ sstore' = VectorStoreAdd(sstore, b).store
          /\ spc' = IF VectorStoreAdd(sstore, b).ok THEN "ok" ELSE "panicked"
          /\ spassed' = spassed \o b
          /\ sbatch' = b
    /\ sbefore' = sstore
    /\ sadds' = sadds + 1
    /\ sres' = NoCall
    /\ UNCHANGED <<indexVars, chunkVars, uiVars, appVars>>

\* A call of query: the assert on the query's dimension ends the process.
StoreQuery ==
    /\ spc = "ok"
    /\ sres = NoCall
    /\ \E qv \in StoreVectors :
          LET found == VectorStoreQuery(sstore, qv, k)
          IN  /\ spc' = IF found.ok THEN "ok" ELSE "panicked"
              /\ sres' = IF found.ok THEN [kind |-> "query", labels |-> found.labels]
                         ELSE [kind |-> "panic"]
    /\ UNCHANGED <<sstore, spassed, sbefore, sbatch, sadds, indexVars, chunkVars, uiVars, appVars>>

\* A call of len.
StoreLen ==
    /\ spc = "ok"
    /\ sres = NoCall
    /\ sres' = [kind |-> "len", size |-> VectorStoreLen(sstore)]
    /\ UNCHANGED <<sstore, spassed, sbefore, sbatch, sadds, spc, indexVars, chunkVars, uiVars, appVars>>

NextStore ==
    \/ StoreAdd
    \/ StoreQuery
    \/ StoreLen

SpecStore == InitStore /\ [][NextStore]_vars

\* ------------------------------------------------------ the user interface

\* The keys: '\n' is NL; the others are named. EACUTE stands for a character
\* of two bytes in UTF-8 (U+00E9), TAB for an ASCII control character.
BS == "BS"
DEL == "DEL"
ESC == "ESC"
TAB == "TAB"
EACUTE == "e'"

\* char::is_ascii, char::is_control
IsAscii(c) == c # EACUTE

IsControl(c) == c \in {NL, BS, DEL, ESC, TAB}

\* char::len_utf8
Utf8Len(c) == IF c = EACUTE THEN 2 ELSE 1

RECURSIVE ByteLen(_)
\* String::len of a string of such characters: its bytes.
ByteLen(str) == IF str = <<>> THEN 0 ELSE Utf8Len(Head(str)) + ByteLen(Tail(str))

\* str::is_char_boundary for b <= len: b is where a character starts, or
\* the end.
IsCharBoundary(str, b) == \E i \in 0..Len(str) : ByteLen(SubSeq(str, 1, i)) = b

\* The number of characters before byte b, a char boundary.
CharsBefore(str, b) == CHOOSE i \in 0..Len(str) : ByteLen(SubSeq(str, 1, i)) = b

\* String::remove(at): panics when at >= len ("bounds") or when at is
\* inside a character ("boundary"); else the character there is removed.
StringRemove(str, at) ==
    IF at >= ByteLen(str) THEN [panic |-> "bounds", str |-> str]
    ELSE IF ~IsCharBoundary(str, at) THEN [panic |-> "boundary", str |-> str]
    ELSE LET i == CharsBefore(str, at)
         IN  [panic |-> "none",
              str |-> SubSeq(str, 1, i) \o SubSeq(str, i + 2, Len(str))]

\* String::insert(at, c): panics when at > len or inside a character.
StringInsert(str, at, c) ==
    IF at > ByteLen(str) THEN [panic |-> "bounds", str |-> str]
    ELSE IF ~IsCharBoundary(str, at) THEN [panic |-> "boundary", str |-> str]
    ELSE LET i == CharsBefore(str, at)
         IN  [panic |-> "none",
              str |-> SubSeq(str, 1, i) \o <<c>> \o SubSeq(str, i + 1, Len(str))]

\* The backspace arm with the cursor left where it was.
BackspaceArmKeepCursor(str, cursor) ==
    IF cursor > 0
    THEN LET r == StringRemove(str, cursor - 1)
         IN  [panic |-> r.panic, str |-> r.str, cursor |-> cursor]
    ELSE [panic |-> "none", str |-> str, cursor |-> cursor]

\* The arm '\x08' | '\x7f' of both handle_input functions: when the cursor
\* is not 0, remove(cursor - 1) and cursor -= 1.
BackspaceArm(str, cursor) ==
    IF cursor > 0
    THEN LET r == StringRemove(str, cursor - 1)
         IN  [panic |-> r.panic, str |-> r.str,
              cursor |-> IF r.panic = "none" THEN cursor - 1 ELSE cursor]
    ELSE [panic |-> "none", str |-> str, cursor |-> cursor]

\* The arm of a printable ASCII character of both handle_input functions:
\* clamp the cursor to len, insert(cursor, c), cursor += 1.
InsertArm(str, cursor, c) ==
    LET at == IF cursor > ByteLen(str) THEN ByteLen(str) ELSE cursor
        r == StringInsert(str, at, c)
    IN  [panic |-> r.panic, str |-> r.str,
         cursor |-> IF r.panic = "none" THEN at + 1 ELSE cursor]

\* HomeScreen::new with the current directory dir.
HomeScreenNew(dir) ==
    [directory |-> dir, directory_cursor_position |-> 0,
     is_editing_directory |-> FALSE]

\* HomeScreen::handle_input while is_editing_directory.
HomeEditingKey(self, key) ==
    IF key = NL \/ key = ESC
    THEN [self |-> [self EXCEPT !.is_editing_directory = FALSE,
                                !.directory_cursor_position = 0],
          action |-> "Continue", panic |-> "none"]
    ELSE IF key = BS \/ key = DEL
    THEN LET r == BackspaceArm(self.directory, self.directory_cursor_position)
         IN  [self |-> [self EXCEPT !.directory = r.str,
                                    !.directory_cursor_position = r.cursor],
              action |-> IF r.panic = "none" THEN "Continue" ELSE "none",
              panic |-> r.panic]
    ELSE IF IsAscii(key) /\ ~IsControl(key)
    THEN LET r == InsertArm(self.directory, self.directory_cursor_position, key)
         IN  [self |-> [self EXCEPT !.directory = r.str,
                                    !.directory_cursor_position = r.cursor],
              action |-> IF r.panic = "none" THEN "Continue" ELSE "none",
              panic |-> r.panic]
    ELSE [self |-> self, action |-> "Continue", panic |-> "none"]

\* HomeScreen::handle_input while not editing.
HomeCommandKey(self, key) ==
    IF key = "d" \/ key = "D"
    THEN [self |-> [self EXCEPT !.is_editing_directory = TRUE,
                                !.directory_cursor_position = ByteLen(self.directory)],
          action |-> "Continue", panic |-> "none"]
    ELSE IF key = "c" \/ key = "C"
    THEN [self |-> self, action |-> "StartChat", panic |-> "none"]
    ELSE IF key = ESC
    THEN [self |-> self, action |-> "Quit", panic |-> "none"]
    ELSE [self |-> self, action |-> "Continue", panic |-> "none"]

\* HomeScreen::handle_input(key): the screen afterwards, the action
\* returned, and whether a String call panicked.
HomeScreen_handle_input(self, key) ==
    IF self.is_editing_directory THEN HomeEditingKey(self, key)
    ELSE HomeCommandKey(self, key)

\* HomeScreen::get_directory
get_directory(self) == self.directory

\* ChatInterface::new
ChatInterfaceNew ==
    [messages |-> <<>>, input |-> <<>>, input_cursor_position |-> 0,
     scroll_offset |-> 0, scroll_to_bottom |-> FALSE]

\* str::trim().is_empty() of a string without control characters.
TrimIsEmpty(str) == \A i \in 1..Len(str) : str[i] = SP

\* ChatInterface::add_message
add_message(self, sender, content) ==
    [self EXCEPT !.messages = Append(self.messages,
                                     [sender |-> sender, content |-> content]),
                 !.scroll_to_bottom = TRUE]

\* The final statement of ChatInterface::handle_input: clamp the cursor.
ClampCursor(self) ==
    IF self.input_cursor_position > ByteLen(self.input)
    THEN [self EXCEPT !.input_cursor_position = ByteLen(self.input)]
    ELSE self

\* ChatInterface::handle_input(key): the interface afterwards and whether
\* a String call panicked.
ChatInterface_handle_input(self, key) ==
    IF key = NL
    THEN IF ~TrimIsEmpty(self.input)
         THEN [self |-> ClampCursor([add_message(self, "User", self.input)
                                        EXCEPT !.input = <<>>,
                                               !.input_cursor_position = 0]),
               panic |-> "none"]
         ELSE [self |-> ClampCursor(self), panic |-> "none"]
    ELSE IF key = BS \/ key = DEL
    THEN LET r == BackspaceArm(self.input, self.input_cursor_position)
         IN  [self |-> IF r.panic = "none"
                       THEN ClampCursor([self EXCEPT !.input = r.str,
                                                     !.input_cursor_position = r.cursor])
                       ELSE self,
              panic |-> r.panic]
    ELSE IF key = ESC
    THEN [self |-> ClampCursor([self EXCEPT !.input = <<>>,
                                            !.input_cursor_position = 0]),
          panic |-> "none"]
    ELSE IF IsAscii(key) /\ ~IsControl(key)
    THEN LET r == InsertArm(self.input, self.input_cursor_position, key)
         IN  [self |-> IF r.panic = "none"
                       THEN ClampCursor([self EXCEPT !.input = r.str,
                                                     !.input_cursor_position = r.cursor])
                       ELSE self,
              panic |-> r.panic]
    ELSE [self |-> ClampCursor(self), panic |-> "none"]

\* The directories the program may be started in (env::current_dir): one
\* of ASCII characters, one whose last character has two bytes.
Directories == { <<"/", "a">>, <<"/", EACUTE>> }

\* The characters given to HomeScreen::handle_input.
HomeKeys == {NL, BS, DEL, ESC, TAB, "d", "D", "c", "C", "x", EACUTE}

\* The characters given to ChatInterface::handle_input.
ChatKeys == {NL, BS, DEL, ESC, TAB, "x", SP, EACUTE}

\* One of the two objects is constructed; the calls below are made on it.
InitUI ==
    /\ \/ /\ \E dir \in Directories : home_screen = HomeScreenNew(dir)
          /\ chat = NoCall
       \/ /\ home_screen = NoCall
          /\ chat = ChatInterfaceNew
    /\ ucall = NoCall
    /\ upc = "ok"
    /\ apc = "unused"
    /\ term = NoCall
    /\ current_directory = <<>>
    /\ exit_path = "none"
    /\ future = "none"
    /\ sstore = <<>>
    /\ spassed = <<>>
    /\ sbefore = <<>>
    /\ sbatch = <<>>
    /\ sadds = 0
    /\ sres = NoCall
    /\ spc = "unused"
    /\ ctext = <<>>
    /\ cchunks = <<>>
    /\ cpc = "unused"
    /\ files = <<>>
    /\ vsDir = FALSE
    /\ manifestExists = FALSE
    /\ manifest = <<>>
    /\ pc = "idle"
    /\ runs = 0
    /\ existing_files = <<>>
    /\ is_empty = TRUE
    /\ idx = 1
    /\ chunks = <<>>
    /\ embeddings = <<>>
    /\ store = <<>>
    /\ log = <<>>
    /\ embedCalls = 0
    /\ startManifest = <<>>
    /\ prevStore = <<>>
    /\ runFresh = FALSE
    /\ prevDone = FALSE
    /\ newFrom = 0
    /\ seenCount = 0
    /\ res = NoCall
    /\ qres = NoCall
    /\ apiKey = TRUE
    /\ prevEnd = "idle"
    /\ prevIdx = 1

\* A call of HomeScreen::handle_input.
HomeInput ==
    /\ upc = "ok"
    /\ home_screen # NoCall
    /\ \E key \in HomeKeys :
          LET r == HomeScreen_handle_input(home_screen, key)
          IN  /\ Len(r.self.directory) <= MaxInput
              /\ home_screen' = r.self
              /\ upc' = IF r.panic = "none" THEN "ok" ELSE "panicked"
              /\ ucall' = [on |-> "home", key |-> key, action |-> r.action,
                           panic |-> r.panic, before |-> home_screen]
    /\ UNCHANGED <<chat, indexVars, chunkVars, storeVars, appVars>>

\* A call of ChatInterface::handle_input.
ChatInput ==
    /\ upc = "ok"
    /\ chat # NoCall
    /\ \E key \in ChatKeys :
          LET r == ChatInterface_handle_input(chat, key)
          IN  /\ Len(r.self.input) <= MaxInput
              /\ Len(r.self.messages) <= MaxMessages
              /\ chat' = r.self
              /\ upc' = IF r.panic = "none" THEN "ok" ELSE "panicked"
              /\ ucall' = [on |-> "chat", key |-> key, action |-> "none",
                           panic |-> r.panic, before |-> chat]
    /\ UNCHANGED <<home_screen, indexVars, chunkVars, storeVars, appVars>>

NextUI ==
    \/ HomeInput
    \/ ChatInput

SpecUI == InitUI /\ [][NextUI]_vars

\* ------------------------------------------------------------------ run_app

TerminalOff == [raw_mode |-> FALSE, alternate_screen |-> FALSE, mouse_capture |-> FALSE]

TerminalOn == [raw_mode |-> TRUE, alternate_screen |-> TRUE, mouse_capture |-> TRUE]

\* The characters of the KeyCode::Char events.
AppChars == {"d", "D", "c", "C", "x", EACUTE}

\* run_app is called from a terminal in its normal state.
InitApp ==
    /\ apc = "start"
    /\ term = TerminalOff
    /\ home_screen = NoCall
    /\ chat = NoCall
    /\ ucall = NoCall
    /\ upc = "unused"
    /\ current_directory = <<>>
    /\ exit_path = "none"
    /\ future = "none"
    /\ sstore = <<>>
    /\ spassed = <<>>
    /\ sbefore = <<>>
    /\ sbatch = <<>>
    /\ sadds = 0
    /\ sres = NoCall
    /\ spc = "unused"
    /\ ctext = <<>>
    /\ cchunks = <<>>
    /\ cpc = "unused"
    /\ files = <<>>
    /\ vsDir = FALSE
    /\ manifestExists = FALSE
    /\ manifest = <<>>
    /\ pc = "idle"
    /\ runs = 0
    /\ existing_files = <<>>
    /\ is_empty = TRUE
    /\ idx = 1
    /\ chunks = <<>>
    /\ embeddings = <<>>
    /\ store = <<>>
    /\ log = <<>>
    /\ embedCalls = 0
    /\ startManifest = <<>>
    /\ prevStore = <<>>
    /\ runFresh = FALSE
    /\ prevDone = FALSE
    /\ newFrom = 0
    /\ seenCount = 0
    /\ res = NoCall
    /\ qres = NoCall
    /\ apiKey = TRUE
    /\ prevEnd = "idle"
    /\ prevIdx = 1

\* "Restore terminal and exit": disable_raw_mode()?, execute!(..,
\* LeaveAlternateScreen, DisableMouseCapture)?, terminal.show_cursor()?,
\* return Ok(()); each ? may return the error instead.
RestoreOutcomes(t) ==
    { [term |-> t, apc |-> "returned_err"],
      [term |-> [t EXCEPT !.raw_mode = FALSE], apc |-> "returned_err"],
      [term |-> TerminalOff, apc |-> "returned_err"],
      [term |-> TerminalOff, apc |-> "returned_ok"] }

\* Terminal initialization and HomeScreen::new: enable_raw_mode()?,
\* execute!(stdout, EnterAlternateScreen, EnableMouseCapture)?.
EnableTerminal ==
    /\ apc = "start"
    /\ \/ /\ term' = term
          /\ apc' = "returned_err"
          /\ UNCHANGED <<home_screen, current_directory>>
       \/ /\ term' = [term EXCEPT !.raw_mode = TRUE]
          /\ apc' = "returned_err"
          /\ UNCHANGED <<home_screen, current_directory>>
       \/ /\ term' = TerminalOn
          /\ apc' = "home"
          /\ \E dir \in Directories :
                /\ home_screen' = HomeScreenNew(dir)
                /\ current_directory' = get_directory(HomeScreenNew(dir))
    /\ UNCHANGED <<chat, ucall, upc, exit_path, future, indexVars, chunkVars, storeVars>>

\* terminal.draw(..)? or event::read()? returns an error in the home loop.
TerminalError ==
    /\ apc = "home"
    /\ apc' = "returned_err"
    /\ UNCHANGED <<term, home_screen, current_directory, chat, ucall, upc,
                   exit_path, future, indexVars, chunkVars, storeVars>>

\* What the home loop does with the action handle_input(key) returned, in
\* the arm of KeyCode::Char: StartChat breaks, Quit restores and returns.
AfterHomeInput(key, r, quits, starts) ==
    /\ Len(r.self.directory) <= MaxInput
    /\ home_screen' = r.self
    /\ ucall' = [on |-> "home", key |-> key, action |-> r.action,
                 panic |-> r.panic, before |-> home_screen]
    /\ IF r.panic # "none"
       THEN /\ apc' = "panicked"
            /\ UNCHANGED <<term, current_directory, exit_path>>
       ELSE IF r.action = "StartChat" /\ starts
       THEN /\ current_directory' = get_directory(r.self)
            /\ exit_path' = "startchat"
            /\ apc' = "setup"
            /\ UNCHANGED term
       ELSE IF r.action = "Quit" /\ quits
       THEN /\ \E o \in RestoreOutcomes(term) : term' = o.term /\ apc' = o.apc
            /\ exit_path' = "quit"
            /\ UNCHANGED current_directory
       ELSE UNCHANGED <<apc, term, current_directory, exit_path>>
    /\ UNCHANGED <<chat, upc, future, indexVars, chunkVars, storeVars>>

\* KeyCode::Char(c)
HomeKeyChar ==
    /\ apc = "home"
    /\ \E c \in AppChars :
          AfterHomeInput(c, HomeScreen_handle_input(home_screen, c), TRUE, TRUE)

\* KeyCode::Backspace: handle_input('\x08'); only Quit is looked at.
HomeKeyBackspace ==
    /\ apc = "home"
    /\ AfterHomeInput(BS, HomeScreen_handle_input(home_screen, BS), TRUE, FALSE)

\* KeyCode::Enter: handle_input('\n'); only StartChat is looked at.
HomeKeyEnter ==
    /\ apc = "home"
    /\ AfterHomeInput(NL, HomeScreen_handle_input(home_screen, NL), FALSE, TRUE)

\* KeyCode::Esc: restore the terminal and return, handle_input not called.
HomeKeyEsc ==
    /\ apc = "home"
    /\ \E o \in RestoreOutcomes(term) : term' = o.term /\ apc' = o.apc
    /\ exit_path' = "esc"
    /\ UNCHANGED <<home_screen, current_directory, chat, ucall, upc, future,
                   indexVars, chunkVars, storeVars>>

\* After the break: setup_vector_store(current_directory); the call of
\* the async fn makes a future, no .await polls it, the statement drops it.
CallSetupVectorStore ==
    /\ apc = "setup"
    /\ future' = "dropped"
    /\ apc' = "return"
    /\ UNCHANGED <<term, home_screen, current_directory, chat, ucall, upc,
                   exit_path, indexVars, chunkVars, storeVars>>

\* return Ok(()); the chat loop and the restore after it are never reached.
ReturnOk ==
    /\ apc = "return"
    /\ apc' = "returned_ok"
    /\ UNCHANGED <<term, home_screen, current_directory, chat, ucall, upc,
                   exit_path, future, indexVars, chunkVars, storeVars>>

NextApp ==
    \/ EnableTerminal
    \/ TerminalError
    \/ HomeKeyChar
    \/ HomeKeyBackspace
    \/ HomeKeyEnter
    \/ HomeKeyEsc
    \/ CallSetupVectorStore
    \/ ReturnOk

SpecApp == InitApp /\ [][NextApp]_vars

\* ------------------------------------------------------------- the claims

\* An indexing run has returned.
RunCompleted == pc = "done"

\* The files the running or the last run listed.
RunFiles == SubSeq(files, 1, seenCount)

\* C1: after any completed indexing run, first or later, the sum of
\* chunk_count over the manifest entries equals the size of the
\* VectorStore the run used.
C1_ManifestSumIsStoreSize ==
    RunCompleted => TotalChunks = VectorStoreLen(store)

RECURSIVE RecordsOf(_)
\* The records of the files fs that have at least one chunk, in order.
RecordsOf(fs) ==
    IF fs = <<>> THEN <<>>
    ELSE (IF chunk_text(Head(fs).text) = <<>> THEN <<>>
          ELSE ManifestRecord(Head(fs).path, Len(chunk_text(Head(fs).text))))
         \o RecordsOf(Tail(fs))

\* C2: a run on a directory with no .vs directory and no manifest file
\* does not fail on the missing manifest file, and when it returns the
\* manifest holds one record per listed file with a chunk, in listing
\* order, with that file's chunk count.
C2_FreshRunRecordsFiles ==
    runFresh =>
        /\ pc # "panic_record"
        /\ RunCompleted => manifest = RecordsOf(RunFiles)

IsPrefix(s, t) == Len(s) <= Len(t) /\ SubSeq(t, 1, Len(s)) = s

\* The run follows a completed run.
FollowsCompleted == runs >= 2 /\ prevDone

\* The files of the run that were added since the run before it began.
NewFiles == SubSeq(files, newFrom + 1, seenCount)

\* C3: a completed run that follows a completed run, files having been
\* added in between, appends one record per new file with a chunk and
\* nothing else to the manifest, and its VectorStore holds the vectors of
\* the run before at their positions, the new ones after them.
C3_RerunAppendsOnly ==
    (RunCompleted /\ FollowsCompleted /\ NewFiles # <<>>) =>
        /\ manifest = startManifest \o RecordsOf(NewFiles)
        /\ IsPrefix(prevStore, store)

\* C4: a completed run that follows a completed run over the same files
\* makes no embedding call and appends nothing to the manifest.
C4_SecondRunIdle ==
    (RunCompleted /\ FollowsCompleted /\ NewFiles = <<>>) =>
        /\ embedCalls = 0
        /\ manifest = startManifest

\* C5: within a run the embedding request of a file, the append of its
\* vectors and the append of its manifest record follow one another with
\* nothing in between, and the embedding of a later file is requested only
\* right after the record of the file before it.
C5_FilesOneAfterAnother ==
    \A p \in 1..Len(log) :
        /\ log[p].op = "embed" =>
              \/ p = 1
              \/ log[p - 1].op = "record" /\ log[p - 1].file < log[p].file
        /\ log[p].op = "add" =>
              p > 1 /\ log[p - 1] = [op |-> "embed", file |-> log[p].file]
        /\ log[p].op = "record" =>
              p > 1 /\ log[p - 1] = [op |-> "add", file |-> log[p].file]

\* A run has embedded, added and recorded one file and then requested the
\* embedding of another.
C5_Witness ==
    /\ Len(log) >= 4
    /\ log[3].op = "record"
    /\ log[4].op = "embed"

\* C6: get_chunk returns a chunk for every index below the manifest's total
\* chunk count and None, without failing, for every index from it on.
C6_ResolveByTotal ==
    res # NoCall =>
        IF res.index < res.total THEN res.kind = "some" ELSE res.kind = "none"

\* C7: a query after a completed run searches a VectorStore that holds as
\* many vectors as the manifest counts chunks.
C7_QuerySearchesIndexedVectors ==
    (RunCompleted /\ qres # NoCall /\ qres.searched) => qres.size = qres.total

\* A label that get_chunk resolves to nothing.
Unresolvable(label) == label = MissingLabel \/ get_chunk(label).kind # "some"

\* C8: a query whose search returns a label that resolves to nothing still
\* returns, without that label.
C8_QueryDropsUnresolvable ==
    (qres # NoCall /\ qres.searched
        /\ \E i \in 1..Len(qres.labels) : Unresolvable(qres.labels[i])) =>
        /\ qres.kind = "ok"
        /\ \A i \in 1..Len(qres.indices) : ~Unresolvable(qres.indices[i])

\* s is t with some elements left out.
RECURSIVE IsSubsequence(_, _)
IsSubsequence(s, t) ==
    IF s = <<>> THEN TRUE
    ELSE IF t = <<>> THEN FALSE
    ELSE IF Head(s) = Head(t) THEN IsSubsequence(Tail(s), Tail(t))
    ELSE IsSubsequence(s, Tail(t))

\* C9: a query that got its embedding returns at most k results, in the
\* order of the search, whose distances do not decrease.
C9_QueryReturnsRanked ==
    (qres # NoCall /\ qres.kind # "err") =>
        /\ qres.kind = "ok"
        /\ Len(qres.indices) <= k
        /\ IsSubsequence(qres.indices, qres.labels)
        /\ \A i \in 1..(Len(qres.distances) - 1) :
              qres.distances[i] <= qres.distances[i + 1]

\* C10: every chunk of chunk_text is at most max_length long or is one line
\* of the text that is longer than max_length.
C10_ChunkLengths ==
    cpc = "done" =>
        \A i \in 1..Len(cchunks) :
            \/ StrLen(cchunks[i]) <= max_length
            \/ \E j \in 1..Len(Lines(ctext)) :
                  /\ Lines(ctext)[j] = cchunks[i]
                  /\ StrLen(Lines(ctext)[j]) > max_length

\* chunk_text returned a chunk of two lines that is max_length long and a
\* chunk that is longer.
C10_Witness ==
    /\ cpc = "done"
    /\ \E i \in 1..Len(cchunks) : StrLen(cchunks[i]) > max_length
    /\ \E i \in 1..Len(cchunks) : cchunks[i] = <<"H", "H">>


RECURSIVE Concat(_)
\* The concatenation of a sequence of strings, nothing added.
Concat(ss) == IF ss = <<>> THEN <<>> ELSE Head(ss) \o Concat(Tail(ss))

RECURSIVE GroupsOf(_, _)
\* Whether cs is made of lines cut into runs of consecutive whole lines,
\* each chunk the concatenation of its run, in order.
GroupsOf(cs, lines) ==
    IF cs = <<>> THEN Concat(lines) = <<>>
    ELSE \E n \in 0..Len(lines) :
            /\ Concat(SubSeq(lines, 1, n)) = Head(cs)
            /\ GroupsOf(Tail(cs), SubSeq(lines, n + 1, Len(lines)))

\* C11: for every text, the chunks of chunk_text concatenated in order are
\* the lines of the text concatenated in order, and every chunk is a run
\* of consecutive whole lines: no line is lost, duplicated, reordered or
\* split across chunks.
C11_ChunksAreTheLines ==
    cpc = "done" =>
        /\ Concat(cchunks) = Concat(Lines(ctext))
        /\ GroupsOf(cchunks, Lines(ctext))

\* chunk_text has cut a text of three lines or more into two chunks or more.
C11_Witness ==
    /\ cpc = "done"
    /\ Len(cchunks) >= 2
    /\ Len(Lines(ctext)) >= 3
    /\ \E i \in 1..Len(cchunks) : Len(cchunks[i]) >= 2

\* The manifest records of the files the run has recorded, in the order of
\* the log.
RecordsOfLog ==
    LET recs == SelectSeq(log, LAMBDA e : e.op = "record")
    IN  Concat([i \in 1..Len(recs) |->
                   ManifestRecord(files[recs[i].file].path,
                                  Len(chunk_text(files[recs[i].file].text)))])

\* The run has stopped on a failed read or a failed embedding call.
RunFailed == pc \in {"panic_read", "panic_embed"}

\* The run before this one stopped that way.
FollowsFailed == prevEnd \in {"panic_read", "panic_embed"}

\* The run has chunked file i and asked for its embeddings (a file with no
\* chunk leaves nothing to see).
Processed(i) ==
    \/ chunk_text(files[i].text) = <<>>
    \/ \E p \in 1..Len(log) : log[p] = [op |-> "embed", file |-> i]

\* C12: when the read or the embedding of a file fails, the run stops with
\* no record for that file or a later one and with the records it had
\* appended before; the run after it, when it completes, has processed the
\* failed file and every file listed after it.
C12_FailureStopsRun ==
    /\ RunFailed =>
          /\ manifest = startManifest \o RecordsOfLog
          /\ \A p \in 1..Len(log) : log[p].op = "record" => log[p].file < idx
    /\ (RunCompleted /\ FollowsFailed) =>
          \A i \in prevIdx..newFrom : Processed(i)

\* The run has been killed.
RunKilled == pc = "killed"

\* The record of file i without its line feed, as a line of the manifest.
RecordLine(i) ==
    files[i].path \o <<SP>> \o UsizeToString(Len(chunk_text(files[i].text)))

\* The number of lines of the manifest that are the record of file i.
RecordCount(i) ==
    LET lines == Lines(manifest)
    IN  Cardinality({ p \in 1..Len(lines) : lines[p] = RecordLine(i) })

\* C13: when a run is killed, also between the writes of a record, the
\* manifest is what it was when the run began followed by one complete
\* record for each file the run has recorded; the run after it, when it
\* completes, has processed the files that had no record and leaves a
\* manifest with exactly one correct record for every file with chunks
\* and no other line.
C13_InterruptedRunResumes ==
    /\ RunKilled => manifest = startManifest \o RecordsOfLog
    /\ (RunCompleted /\ prevEnd = "killed") =>
          LET lines == Lines(manifest)
          IN  /\ \A i \in 1..seenCount :
                    RecordCount(i) = IF chunk_text(files[i].text) = <<>> THEN 0 ELSE 1
              /\ \A p \in 1..Len(lines) : \E i \in 1..seenCount : lines[p] = RecordLine(i)

\* C14: a run started without the embedding credentials (GEMINI_API_KEY not
\* set) does no I/O: it does not create the .vs directory, reads no
\* document (no file is chunked, no embedding is asked for) and writes
\* nothing to the manifest.
C14_NoKeyNoIO ==
    (~apiKey /\ runs > 0) =>
        /\ runFresh => ~vsDir
        /\ chunks = <<>>
        /\ log = <<>>
        /\ manifest = startManifest

\* C15: whenever the embedding call of a file has returned without a
\* failure, its vectors are one per chunk of the file, in the order of the
\* chunks, each of the configured dimension; and when the run is about to
\* append the file's record, the chunk count it records is the number of
\* vectors the store has just taken for the file.
C15_OneVectorPerChunk ==
    /\ pc \in {"adding", "recording"} =>
          embeddings = [i \in 1..Len(chunks) |-> Vector(embedding_dim, chunks[i])]
    /\ pc = "recording" => Len(chunks) = Len(embeddings)

\* C16: the stored vectors are always the first vectors ever passed to add,
\* each at the position of its passing (call order, then order within the
\* call); after any sequence of calls of add that returned, with calls of
\* query and len between them, they are all the vectors passed and len()
\* is their number.
C16_StoreIsAppendOnly ==
    /\ IsPrefix(sstore, spassed)
    /\ spc = "ok" =>
          /\ sstore = spassed
          /\ VectorStoreLen(sstore) = Len(spassed)
    /\ sres.kind = "len" => sres.size = Len(spassed)

\* Two calls of add have returned, three vectors or more are stored, and
\* len is called.
C16_Witness ==
    /\ spc = "ok"
    /\ sadds = 2
    /\ Len(sbefore) >= 1
    /\ Len(sstore) >= 3
    /\ sres.kind = "len"

\* The last call of add was given a vector of another dimension than the
\* store's.
BadBatch ==
    /\ sadds > 0
    /\ \E i \in 1..Len(sbatch) : sbatch[i].dim # embedding_dim

\* The position in the batch of its first vector of another dimension.
FirstBad ==
    CHOOSE i \in 1..Len(sbatch) :
        /\ sbatch[i].dim # embedding_dim
        /\ \A j \in 1..(i - 1) : sbatch[j].dim = embedding_dim

\* C19 as stated: add given a batch with a vector of another dimension
\* fails fatally and has appended none of the batch's vectors, len() being
\* what it was before the call.
C19_FailedAddAppendsNothing ==
    BadBatch =>
        /\ spc = "panicked"
        /\ VectorStoreLen(sstore) = VectorStoreLen(sbefore)

\* C19 amended: add given a batch with a vector of another dimension fails
\* fatally at the first such vector; the vectors of the batch before it
\* have been appended, that vector and those after it have not.
C19_FailedAddKeepsPrefix ==
    BadBatch =>
        /\ spc = "panicked"
        /\ sstore = sbefore \o SubSeq(sbatch, 1, FirstBad - 1)

\* A call of add on a store that is not empty has failed at the second
\* vector of its batch.
C19_Witness ==
    /\ BadBatch
    /\ spc = "panicked"
    /\ sbefore # <<>>
    /\ FirstBad = 2
    /\ Len(sstore) = Len(sbefore) + 1

RECURSIVE EntryOf(_, _)
\* The first entry whose range contains g, with g's offset in its range.
EntryOf(entries, g) ==
    IF g < Head(entries).chunk_count
    THEN [filename |-> Head(entries).filename, local |-> g]
    ELSE EntryOf(Tail(entries), g - Head(entries).chunk_count)

\* C17: a call of get_chunk with an index g below the manifest's total
\* returns the chunk at g's offset in the range of the first entry whose
\* range contains g, of the file that entry names, and that chunk is the
\* text whose vector the indexing appended at position g of the
\* VectorStore.
C17_ResolveReturnsIndexedChunk ==
    (res # NoCall /\ res.index < res.total) =>
        LET e == EntryOf(LoadFileChunks(manifest), res.index)
        IN  /\ res.kind = "some"
            /\ FileExists(e.filename)
            /\ e.local < Len(chunk_text(FileText(e.filename)))
            /\ res.text = chunk_text(FileText(e.filename))[e.local + 1]
            /\ res.index < VectorStoreLen(store)
            /\ store[res.index + 1].of = res.text

\* add_to_faiss_lookup has just returned: the last entry of the log is the
\* record of a file and the loop has not moved on.
JustRecorded ==
    /\ pc = "loop"
    /\ log # <<>>
    /\ log[Len(log)].op = "record"
    /\ idx = log[Len(log)].file + 1

\* C18: after add_to_faiss_lookup has appended the record of a path and a
\* chunk count, the manifest's last entry as the loader of get_chunk reads
\* it has that path and that count, and the last name the loader of
\* setup_vector_store reads is that path, so that the path counts as
\* indexed.
C18_ManifestRoundTrip ==
    JustRecorded =>
        LET path == get_files[idx - 1]
            entries == LoadFileChunks(manifest)
            names == LoadExisting(manifest)
        IN  /\ entries # <<>>
            /\ entries[Len(entries)] = [filename |-> path, chunk_count |-> Len(chunks)]
            /\ names # <<>>
            /\ names[Len(names)] = path
            /\ \E i \in 1..Len(names) : names[i] = path

\* C20: only files with chunks are embedded, added and recorded: every
\* entry of the run's log is about a file with one chunk or more, there
\* are as many embedding calls as the log shows, the store holds vectors
\* only after a logged add, the chunks in hand during the three steps are
\* not empty, and every entry of the manifest has a chunk_count of 1 or
\* more.
C20_NoEntryWithoutChunks ==
    /\ \A p \in 1..Len(log) : chunk_text(files[log[p].file].text) # <<>>
    /\ embedCalls = Cardinality({ p \in 1..Len(log) : log[p].op = "embed" })
    /\ store # <<>> => \E p \in 1..Len(log) : log[p].op = "add"
    /\ pc \in {"embedding", "adding", "recording"} => chunks # <<>>
    /\ LET entries == LoadFileChunks(manifest)
       IN  \A i \in 1..Len(entries) : entries[i].chunk_count >= 1

\* A run has completed over a file with no chunk followed by a file with
\* chunks, which it has recorded.
C20_Witness ==
    /\ RunCompleted
    /\ seenCount = 2
    /\ chunk_text(files[1].text) = <<>>
    /\ log # <<>>
    /\ log[Len(log)] = [op |-> "record", file |-> 2]
    /\ LoadFileChunks(manifest) # <<>>

RECURSIVE FlushLines(_, _)
\* The lines before which the loop of chunk_text pushes the buffer, in
\* order: line number i of them follows chunk i and opens the next buffer.
FlushLines(st, lines) ==
    IF lines = <<>> THEN <<>>
    ELSE LET st2 == ChunkStep(st, Head(lines))
         IN  (IF Len(st2.chunks) > Len(st.chunks) THEN <<Head(lines)>> ELSE <<>>)
                \o FlushLines(st2, Tail(lines))

\* C21: chunk_text is greedy: for every two consecutive chunks, the length
\* of the earlier chunk plus the length of the first line of the later
\* chunk is greater than max_length.
C21_GreedyBoundaries ==
    cpc = "done" =>
        LET first == FlushLines([chunks |-> <<>>, current_chunk |-> <<>>,
                                 current_length |-> 0], Lines(ctext))
        IN  \A i \in 1..(Len(cchunks) - 1) :
               /\ i <= Len(first)
               /\ StrLen(cchunks[i]) + StrLen(first[i]) > max_length

\* chunk_text has returned three chunks, none empty and none longer than
\* max_length.
C21_Witness ==
    /\ cpc = "done"
    /\ Len(cchunks) >= 3
    /\ \A i \in 1..Len(cchunks) :
          cchunks[i] # <<>> /\ StrLen(cchunks[i]) <= max_length

\* C22: chunk_text returns no empty chunk, whatever the text.
C22_NoEmptyChunk ==
    cpc = "done" => \A i \in 1..Len(cchunks) : cchunks[i] # <<>>

\* C25: after any sequence of calls of handle_input on a HomeScreen or on
\* a ChatInterface, the cursor position is at most the length of the
\* edited string, and no remove or insert has been given an index out of
\* bounds.
C25_CursorWithinString ==
    /\ home_screen # NoCall =>
          home_screen.directory_cursor_position <= ByteLen(home_screen.directory)
    /\ chat # NoCall =>
          chat.input_cursor_position <= ByteLen(chat.input)
    /\ ucall # NoCall => ucall.panic # "bounds"

\* A backspace with the cursor at the end of a directory of two characters
\* or more has removed the last one.
C25_Witness ==
    /\ ucall # NoCall
    /\ ucall.on = "home"
    /\ ucall.key = BS
    /\ ucall.panic = "none"
    /\ Len(ucall.before.directory) >= 2
    /\ ucall.before.directory_cursor_position = ByteLen(ucall.before.directory)
    /\ home_screen.directory_cursor_position = ByteLen(home_screen.directory)
    /\ Len(home_screen.directory) = Len(ucall.before.directory) - 1

\* C26: a call of HomeScreen::handle_input returns StartChat only for 'c'
\* or 'C' while not editing and Quit only for escape while not editing;
\* while editing every key returns Continue, and only Enter or escape end
\* the editing.
C26_HomeScreenActions ==
    (ucall # NoCall /\ ucall.on = "home") =>
        /\ ucall.action = "StartChat" =>
              ucall.key \in {"c", "C"} /\ ~ucall.before.is_editing_directory
        /\ ucall.action = "Quit" =>
              ucall.key = ESC /\ ~ucall.before.is_editing_directory
        /\ ucall.before.is_editing_directory => ucall.action = "Continue"
        /\ (ucall.before.is_editing_directory /\ ~home_screen.is_editing_directory) =>
              ucall.key \in {NL, ESC}

\* run_app has returned Ok.
ReturnedOk == apc = "returned_ok"

\* C23: when run_app returns after the user started the chat from the home
\* screen, the future of setup_vector_store has run to completion: an
\* indexing run of the directory has completed.
C23_IndexingBeforeReturn ==
    (ReturnedOk /\ exit_path = "startchat") =>
        /\ future = "completed"
        /\ RunCompleted

\* C24: whenever run_app has returned Ok, raw mode is disabled, the
\* alternate screen is left and mouse capture is disabled.
C24_TerminalRestored ==
    ReturnedOk => term = TerminalOff

=============================================================================
